---- MODULE Spec2Model ----
(***************************************************************************)
(* SparkKeep: local store, outbox queue and sync engine.                   *)
(*                                                                         *)
(* The model follows src/src/data/localdb.ts (SQLite tables `ideas` and    *)
(* `outbox`), the sync service hook useSyncService (src/unnamed/part_001), *)
(* the screens that enqueue outbox items (src/unnamed/part_003..005) and   *)
(* the Convex mutations of src/convex/ideas.ts.                            *)
(*                                                                         *)
(* JavaScript runs the handlers on one event loop: a handler runs until    *)
(* its next `await`.  A drain pass (flushOutbox) is therefore a sequence   *)
(* of steps separated by its suspension points: the read of the outbox,    *)
(* and for every item the remote call.  The SQLite statements that follow  *)
(* a remote call (markIdeaSynced, removeOutboxByLocalId, ...) are taken    *)
(* together with the return of the call; the loop head that follows them   *)
(* is a step of its own, so that connectivity, teardown and the screens    *)
(* interleave with a pass between any two items.  A remote call can fail;  *)
(* the storage layer is taken to be reliable, except in SpecEngine, where  *)
(* the read of the outbox can throw.                                       *)
(***************************************************************************)
EXTENDS Integers, Sequences, FiniteSets, TLC

\* ---------------------------------------------------------------- bounds
MaxIdeas == 2        \* IdeaRecords ever inserted (localIds 1..MaxIdeas)
MaxItems == 3        \* OutboxItems ever enqueued (entry ids 1..MaxItems)
MaxRemote == 3       \* documents ever inserted in the remote table
MaxSyncTimers == 1   \* pending 100 ms timers of syncNow kept apart
MaxFailures == 2     \* remote calls that fail in one behaviour
RetryIdeas == 1      \* the same three bounds of the specification SpecRetry,
RetryItems == 3      \*   which follows few entries through many failures
RetryFailures == 12
NumPasses == 2       \* flushOutbox invocations that can be suspended at once
EngineIdeas == 1     \* the same three bounds of the specification SpecEngine,
EngineItems == 2     \*   which records the handler of every step
EngineFailures == 2
CalmIdeas == 2       \* the bounds of the specification SpecCalm, in which no
CalmItems == 3       \*   remote call fails
UpdateIdeas == 1     \* the bounds of the specification SpecUpdate, whose outbox
UpdateItems == 2     \*   can hold updateIdea entries
UpdateFailures == 1
CaptureIdeas == 1    \* the bounds of the specification SpecCapture, whose onSubmit
CaptureItems == 1    \*   is suspended at its awaits
CaptureFailures == 12
UpdatePasses == 3    \*   and follows so many retries in a row of such an entry

\* ------------------------------------------------------ program constants
MAX_RETRY_ATTEMPTS == 10
RETRY_DELAYS == <<2000, 5000, 10000, 30000>>

NULL == 0            \* an absent id: SQL NULL / JS null / JS undefined (`??` treats them alike)
NONE == "NONE"       \* an absent status or type

LocalIds == 1..MaxIdeas
ItemIds == 1..MaxItems
Passes == 1..NumPasses

VARIABLES
    ideas,              \* table `ideas`: localId -> row
    outbox,             \* table `outbox`: set of rows
    remote,             \* Convex table `ideas`: sequence of documents, _id = index
    isOnline,           \* module variable isOnline
    isSyncing,          \* module variable isSyncing
    retryTimeoutId,     \* module variable retryTimeoutId: "null", "live" or "stale"
    orphanTimers,       \* pending retry timers no variable refers to any more
    retryDelay,         \* delay given to the latest setTimeout of a retry
    mounted,            \* mountedRef.current
    currentRetryIndex,  \* currentRetryIndex.current
    syncTimers,         \* pending setTimeout(flushOutbox, 100) of syncNow
    pass,               \* the suspended invocations of flushOutbox
    fate,               \* history: what became of each outbox entry
    failStreak,         \* history: passes in a row that ended with a failure
    failures,           \* history: remote calls that failed
    budget,             \* the bounds of the behaviour: [ideas, items, failures, history]
    lastFlush,          \* history: what the latest call of flushOutbox did
    lastEvent,          \* history: the handler that took the latest step
    overtaken,          \* history: another trigger started a pass while the retry
                        \*   timer of retryTimeoutId was pending
    capturing           \* the onSubmit suspended between its insert and its enqueue

vars == <<ideas, outbox, remote, isOnline, isSyncing, retryTimeoutId, orphanTimers,
          retryDelay, mounted, currentRetryIndex, syncTimers, pass, fate,
          failStreak, failures, budget, lastFlush, lastEvent, overtaken, capturing>>

dbVars == <<ideas, outbox, remote, fate>>
engineVars == <<isOnline, isSyncing, retryTimeoutId, orphanTimers, retryDelay,
                mounted, currentRetryIndex, pass, failStreak, lastFlush>>

\* the history of handlers is kept where the specification asks for it
Record(event) == IF budget.history THEN event ELSE lastEvent

\* a trigger other than the retry timer has just started a pass
Overtakes ==
    IF budget.history /\ ~isSyncing /\ isSyncing' /\ retryTimeoutId = "live"
    THEN TRUE ELSE overtaken

\* ------------------------------------------------------------ local store
NoRow == [state |-> "none", serverId |-> NULL, type |-> NONE, parent |-> NULL,
          status |-> NONE, archived |-> FALSE]
DeletedRow == [NoRow EXCEPT !.state = "deleted"]

Live(l) == ideas[l].state = "live"

\* insertIdeaLocal: a fresh localId, serverId NULL, status defaulted by type
DefaultStatus(type) == IF type = "PROJECT" THEN "BACKLOG" ELSE "INBOX"

insertIdeaLocal(tbl, l, type, parent, status) ==
    [tbl EXCEPT ![l] = [state |-> "live", serverId |-> NULL, type |-> type,
                        parent |-> parent,
                        status |-> IF status = NONE THEN DefaultStatus(type) ELSE status,
                        archived |-> FALSE]]

markIdeaSynced_FirstIdea(tbl, l, s) ==
    IF tbl[1].state = "live" THEN [tbl EXCEPT ![1].serverId = s] ELSE tbl

markIdeaSynced_Upsert(tbl, l, s) ==
    [tbl EXCEPT ![l].state = "live", ![l].serverId = s]

\* UPDATE ideas SET serverId = $serverId WHERE localId = $localId
markIdeaSynced(tbl, l, s) ==
    IF tbl[l].state = "live" THEN [tbl EXCEPT ![l].serverId = s] ELSE tbl

updateIdeaLocalStatus(tbl, l, status) ==
    IF tbl[l].state = "live" THEN [tbl EXCEPT ![l].status = status] ELSE tbl

archiveIdeaLocal(tbl, l) ==
    IF tbl[l].state = "live" THEN [tbl EXCEPT ![l].archived = TRUE] ELSE tbl

deleteIdeaLocal_Cascade(tbl, l) ==
    [k \in DOMAIN tbl |->
        IF tbl[k].state = "live" /\ (k = l \/ tbl[k].parent = l) THEN DeletedRow ELSE tbl[k]]

\* DELETE FROM ideas WHERE localId = $localId
deleteIdeaLocal(tbl, l) ==
    IF tbl[l].state = "live" THEN [tbl EXCEPT ![l] = DeletedRow] ELSE tbl

getServerIdByLocalId_NoRowRead(tbl, l) == NULL

\* SELECT serverId FROM ideas WHERE localId = ?   (row?.serverId ?? null)
getServerIdByLocalId(tbl, l) ==
    IF tbl[l].state = "live" THEN tbl[l].serverId ELSE NULL

\* ----------------------------------------------------------------- outbox
OutboxIds(ob) == {it.id : it \in ob}

\* enqueueOutbox: entry id and createdAt are fresh, attemptCount 0, lastError null.
\* Two entries are never enqueued in the same millisecond: createdAt is the
\* count of entries enqueued so far.
Enqueued == Cardinality({i \in ItemIds : fate[i] # "unborn"})

NewItem(id, action, l, serverId, parentLocal, status) ==
    [id |-> id, action |-> action, localId |-> l, serverId |-> serverId,
     parentProjectServerId |-> NULL, parentProjectLocalId |-> parentLocal,
     status |-> status, createdAt |-> id, attemptCount |-> 0, lastError |-> "null"]

enqueueOutbox(ob, action, l, serverId, parentLocal, status) ==
    ob \cup {NewItem(Enqueued + 1, action, l, serverId, parentLocal, status)}

removeOutboxByLocalId_KeepsCreates(ob, l) ==
    {it \in ob : it.localId # l \/ it.action \in {"createProject", "createFeature"}}

\* DELETE FROM outbox WHERE json_extract(payload, '$.localId') = $localId
removeOutboxByLocalId(ob, l) == {it \in ob : it.localId # l}

removeOutboxById_WholeLocalId(ob, id) ==
    {it \in ob : \A o \in ob : o.id = id => it.localId # o.localId}

\* DELETE FROM outbox WHERE id = $id
removeOutboxById(ob, id) == {it \in ob : it.id # id}

\* UPDATE outbox SET attemptCount = attemptCount + 1, lastError = $error
\*   WHERE json_extract(payload, '$.localId') = $localId
incrementOutboxAttempt(ob, l, msg) ==
    {IF it.localId = l
        THEN [it EXCEPT !.attemptCount = @ + 1, !.lastError = msg]
        ELSE it : it \in ob}

\* SELECT ... FROM outbox ORDER BY createdAt ASC: the orderings of the rows
\* that the ORDER BY allows
IsOrdered(s) == \A i, j \in 1..Len(s) : i < j => s[i].createdAt <= s[j].createdAt

Orderings(ob) ==
    {s \in [1..Cardinality(ob) -> ob] : \A i, j \in 1..Cardinality(ob) : i # j => s[i] # s[j]}

getOutboxItems_Unordered(ob) == Orderings(ob)

getOutboxItems(ob) == {s \in Orderings(ob) : IsOrdered(s)}

\* ---------------------------------------------------------- remote service
\* The Convex mutations of convex/ideas.ts, run on table `db`.  Each gives
\* [ok, id, db, msg]: ok = FALSE when the handler throws.
Doc(type, parent, status, origin) ==
    [type |-> type, parent |-> parent, status |-> status, archived |-> FALSE,
     deleted |-> FALSE, origin |-> origin]

Exists(db, id) == id \in 1..Len(db) /\ ~db[id].deleted

Thrown(db, msg) == [ok |-> FALSE, id |-> NULL, db |-> db, msg |-> msg]

Returned(db, id) == [ok |-> TRUE, id |-> id, db |-> db, msg |-> "null"]

convexCreateProject(db, c) ==
    Returned(Append(db, Doc("PROJECT", NULL, "BACKLOG", c.origin)), Len(db) + 1)

convexCreateFeature(db, c) ==
    IF c.parentProjectId # NULL
       /\ ~(Exists(db, c.parentProjectId) /\ db[c.parentProjectId].type = "PROJECT")
    THEN Thrown(db, "Invalid project")
    ELSE Returned(Append(db, Doc("FEATURE", c.parentProjectId,
                                 IF c.status = NONE THEN "INBOX" ELSE c.status, c.origin)),
                  Len(db) + 1)

convexUpdateStatus(db, c) ==
    IF ~Exists(db, c.id) THEN Thrown(db, "Idea not found")
    ELSE Returned([db EXCEPT ![c.id].status = c.status], c.id)

convexArchiveIdea(db, c) ==
    IF ~Exists(db, c.id) THEN Thrown(db, "Idea not found")
    ELSE Returned([db EXCEPT ![c.id].archived = TRUE], c.id)

convexDeleteIdea(db, c) ==
    IF ~Exists(db, c.id) THEN Thrown(db, "Delete on nonexistent document")
    ELSE Returned([db EXCEPT ![c.id].deleted = TRUE], c.id)

Invoke(db, c) ==
    CASE c.op = "createProject" -> convexCreateProject(db, c)
      [] c.op = "createFeature" -> convexCreateFeature(db, c)
      [] c.op = "updateStatus"  -> convexUpdateStatus(db, c)
      [] c.op = "archiveIdea"   -> convexArchiveIdea(db, c)
      [] c.op = "deleteIdea"    -> convexDeleteIdea(db, c)

\* A remote call: the mutation, its arguments, and the localId it is made for
NoCall == [op |-> "none", id |-> NULL, parentProjectId |-> NULL, status |-> NONE,
           origin |-> NULL]

\* -------------------------------------------------------------- sync engine
IdlePass == [pc |-> "idle", items |-> <<>>, idx |-> 0, anyFailed |-> FALSE,
             created |-> {}, failed |-> {}, call |-> NoCall]

Active(p) == pass[p].pc # "idle"

FreeSlot == CHOOSE p \in Passes : ~Active(p) /\ \A q \in Passes : q < p => Active(q)

flushOutboxGuard_NoSyncingCheck(m, syncing, online) == m /\ online

flushOutboxGuard_NoOnlineCheck(m, syncing, online) == m /\ ~syncing

\* flushOutbox, line 139: if (!mountedRef.current || isSyncing || !isOnline) return;
flushOutboxGuard(m, syncing, online) == m /\ ~syncing /\ online

\* flushOutbox up to its first await: isSyncing = true; await getOutboxItems()
flushOutbox(m, online) ==
    IF flushOutboxGuard(m, isSyncing, online)
    THEN /\ \E p \in Passes : ~Active(p)
         /\ isSyncing' = TRUE
         /\ pass' = [pass EXCEPT ![FreeSlot] = [IdlePass EXCEPT !.pc = "fetch"]]
         /\ lastFlush' = "started"
    ELSE /\ UNCHANGED <<isSyncing, pass>>
         /\ lastFlush' = IF m /\ online THEN "busy" ELSE "skipped"

RetryDelay_Wraps(index) == RETRY_DELAYS[(index % Len(RETRY_DELAYS)) + 1]

\* RETRY_DELAYS[Math.min(currentRetryIndex.current, RETRY_DELAYS.length - 1)]
RetryDelay(index) ==
    RETRY_DELAYS[(IF index < Len(RETRY_DELAYS) - 1 THEN index ELSE Len(RETRY_DELAYS) - 1) + 1]

MaxRetriesExceeded_Strict(it) == it.attemptCount > MAX_RETRY_ATTEMPTS

\* item.attemptCount >= MAX_RETRY_ATTEMPTS, on the item as read at pass start
MaxRetriesExceeded(it) == it.attemptCount >= MAX_RETRY_ATTEMPTS

ResolveServerId_PayloadOnly(it) == it.serverId

\* payload.serverId ?? (await getServerIdByLocalId(payload.localId))
ResolveServerId(it) ==
    IF it.serverId # NULL THEN it.serverId ELSE getServerIdByLocalId(ideas, it.localId)

ResolveParent_FallsBackToLocalId(it) ==
    IF it.parentProjectServerId # NULL THEN it.parentProjectServerId
    ELSE IF it.parentProjectLocalId # NULL
         THEN IF getServerIdByLocalId(ideas, it.parentProjectLocalId) # NULL
              THEN getServerIdByLocalId(ideas, it.parentProjectLocalId)
              ELSE it.parentProjectLocalId
         ELSE NULL

\* payload.parentProjectServerId ??
\*   (payload.parentProjectLocalId ? await getServerIdByLocalId(...) : undefined)
ResolveParent(it) ==
    IF it.parentProjectServerId # NULL THEN it.parentProjectServerId
    ELSE IF it.parentProjectLocalId # NULL
         THEN getServerIdByLocalId(ideas, it.parentProjectLocalId)
         ELSE NULL

IsCreate(it) == it.action \in {"createProject", "createFeature"}

\* the action kinds processItem has a branch for
Handled(it) ==
    it.action \in {"createProject", "createFeature", "updateStatus", "archiveIdea",
                   "deleteIdea"}

\* the remote call processItem makes for an item
CallFor(it) ==
    CASE it.action = "createProject" ->
           [NoCall EXCEPT !.op = "createProject", !.origin = it.localId]
      [] it.action = "createFeature" ->
           [NoCall EXCEPT !.op = "createFeature", !.parentProjectId = ResolveParent(it),
                          !.status = IF it.status = NONE THEN "INBOX" ELSE it.status,
                          !.origin = it.localId]
      [] OTHER ->
           [NoCall EXCEPT !.op = it.action, !.id = ResolveServerId(it),
                          !.status = it.status, !.origin = it.localId]

\* an updateStatus, archiveIdea or deleteIdea item with no serverId to use
Moot(it) ==
    /\ it.action \in {"updateStatus", "archiveIdea", "deleteIdea"}
    /\ ResolveServerId(it) = NULL

Current(p) == pass[p].items[pass[p].idx]

LoopEnds_StopsOnFailure(p) ==
    pass[p].idx > Len(pass[p].items) \/ ~mounted \/ ~isOnline \/ pass[p].anyFailed

LoopEnds_SkipsLast(p) == pass[p].idx >= Len(pass[p].items) \/ ~mounted \/ ~isOnline

\* for (const item of items) { if (!mountedRef.current || !isOnline) break; ...
LoopEnds(p) == pass[p].idx > Len(pass[p].items) \/ ~mounted \/ ~isOnline

\* await getOutboxItems() returns
Fetch(p) ==
    /\ pass[p].pc = "fetch"
    /\ \E items \in getOutboxItems(outbox) :
         IF Len(items) = 0
         THEN /\ currentRetryIndex' = 0
              /\ failStreak' = 0
              /\ isSyncing' = FALSE
              /\ pass' = [pass EXCEPT ![p] = IdlePass]
         ELSE /\ pass' = [pass EXCEPT ![p].pc = "loop", ![p].items = items, ![p].idx = 1]
              /\ UNCHANGED <<currentRetryIndex, failStreak, isSyncing>>
    /\ lastEvent' = Record("pass")
    /\ UNCHANGED overtaken
    /\ UNCHANGED <<dbVars, isOnline, retryTimeoutId, orphanTimers, retryDelay, mounted,
                   syncTimers, failures, budget, capturing, lastFlush>>

FetchThrows_NoFinally(p) ==
    /\ pass[p].pc = "fetch"
    /\ pass' = [pass EXCEPT ![p] = IdlePass]
    /\ lastFlush' = "threw"
    /\ lastEvent' = Record("pass")
    /\ UNCHANGED overtaken
    /\ UNCHANGED <<dbVars, isOnline, isSyncing, retryTimeoutId, orphanTimers, retryDelay,
                   mounted, currentRetryIndex, syncTimers, failStreak, failures, budget, capturing>>

\* await getOutboxItems() throws: the finally block runs and flushOutbox rejects
FetchThrows(p) ==
    /\ pass[p].pc = "fetch"
    /\ isSyncing' = FALSE
    /\ pass' = [pass EXCEPT ![p] = IdlePass]
    /\ lastFlush' = "threw"
    /\ lastEvent' = Record("pass")
    /\ UNCHANGED overtaken
    /\ UNCHANGED <<dbVars, isOnline, retryTimeoutId, orphanTimers, retryDelay, mounted,
                   currentRetryIndex, syncTimers, failStreak, failures, budget, capturing>>

\* processItem up to the remote call
IssueCall(p) ==
    /\ pass[p].pc = "loop"
    /\ ~LoopEnds(p)
    /\ Handled(Current(p))
    /\ ~Moot(Current(p))
    /\ pass' = [pass EXCEPT ![p].pc = "call", ![p].call = CallFor(Current(p))]
    /\ lastEvent' = Record("pass")
    /\ UNCHANGED overtaken
    /\ UNCHANGED <<dbVars, isOnline, isSyncing, retryTimeoutId, orphanTimers, retryDelay,
                   mounted, currentRetryIndex, syncTimers, failStreak, failures, budget, capturing, lastFlush>>

\* processItem, no serverId: await removeOutboxById(item.id); return true
RemoveMoot(p) ==
    /\ pass[p].pc = "loop"
    /\ ~LoopEnds(p)
    /\ Moot(Current(p))
    /\ outbox' = removeOutboxById(outbox, Current(p).id)
    /\ fate' = [fate EXCEPT ![Current(p).id] = "moot"]
    /\ pass' = [pass EXCEPT ![p].idx = @ + 1]
    /\ lastEvent' = Record("pass")
    /\ UNCHANGED overtaken
    /\ UNCHANGED <<ideas, remote, isOnline, isSyncing, retryTimeoutId, orphanTimers,
                   retryDelay, mounted, currentRetryIndex, syncTimers, failStreak,
                   failures, budget, capturing, lastFlush>>

\* processItem, no branch matches item.action: return false.  The backoff
\* index grows with every pass that ends so; it is followed up to UpdatePasses.
ReturnFalse(p) ==
    /\ pass[p].pc = "loop"
    /\ ~LoopEnds(p)
    /\ ~Handled(Current(p))
    /\ currentRetryIndex < UpdatePasses
    /\ pass' = [pass EXCEPT ![p].idx = @ + 1, ![p].anyFailed = TRUE]
    /\ lastEvent' = Record("pass")
    /\ UNCHANGED overtaken
    /\ UNCHANGED <<dbVars, isOnline, isSyncing, retryTimeoutId, orphanTimers,
                   retryDelay, mounted, currentRetryIndex, syncTimers, failStreak,
                   failures, budget, capturing, lastFlush>>

\* the remote call returns: bookkeeping of the try block, return true
ReturnOk(p) ==
    /\ pass[p].pc = "call"
    /\ LET it == Current(p)
           r == Invoke(remote, pass[p].call)
       IN /\ r.ok
          /\ Len(r.db) <= MaxRemote
          /\ remote' = r.db
          /\ ideas' = IF IsCreate(it) THEN markIdeaSynced(ideas, it.localId, r.id) ELSE ideas
          /\ outbox' = removeOutboxByLocalId(outbox, it.localId)
          /\ fate' = [fate EXCEPT ![it.id] = "success"]
          /\ pass' = [pass EXCEPT ![p].pc = "loop", ![p].idx = @ + 1, ![p].call = NoCall,
                                  ![p].created = IF IsCreate(it)
                                                 THEN @ \cup {<<it.localId, r.id>>} ELSE @]
    /\ lastEvent' = Record("pass")
    /\ UNCHANGED overtaken
    /\ UNCHANGED <<isOnline, isSyncing, retryTimeoutId, orphanTimers, retryDelay, mounted,
                   currentRetryIndex, syncTimers, failStreak, failures, budget, capturing, lastFlush>>

ReturnError_Rethrows(p) ==
    /\ pass[p].pc = "call"
    /\ LET r == Invoke(remote, pass[p].call)
       IN /\ r.ok => failures < budget.failures
          /\ failures' = IF r.ok THEN failures + 1 ELSE failures
    /\ isSyncing' = FALSE
    /\ pass' = [pass EXCEPT ![p] = IdlePass]
    /\ lastFlush' = "threw"
    /\ lastEvent' = Record("pass")
    /\ UNCHANGED overtaken
    /\ UNCHANGED <<dbVars, isOnline, retryTimeoutId, orphanTimers, retryDelay, mounted,
                   currentRetryIndex, syncTimers, failStreak, budget, capturing>>

\* the remote call throws: the catch block
ReturnError(p) ==
    /\ pass[p].pc = "call"
    /\ LET it == Current(p)
           r == Invoke(remote, pass[p].call)
           msg == IF r.ok THEN "Network request failed" ELSE r.msg
           bumped == incrementOutboxAttempt(outbox, it.localId, msg)
       IN /\ r.ok => failures < budget.failures
          /\ failures' = IF r.ok THEN failures + 1 ELSE failures
          /\ IF MaxRetriesExceeded(it)
             THEN /\ outbox' = removeOutboxById(bumped, it.id)
                  /\ fate' = [fate EXCEPT ![it.id] = "abandoned"]
                  /\ pass' = [pass EXCEPT ![p].pc = "loop", ![p].idx = @ + 1,
                                          ![p].call = NoCall]
             ELSE /\ outbox' = bumped
                  /\ fate' = fate
                  /\ pass' = [pass EXCEPT ![p].pc = "loop", ![p].idx = @ + 1,
                                          ![p].call = NoCall, ![p].anyFailed = TRUE,
                                          ![p].failed = @ \cup {<<it.id, msg>>}]
    /\ lastEvent' = Record("pass")
    /\ UNCHANGED overtaken
    /\ UNCHANGED <<ideas, remote, isOnline, isSyncing, retryTimeoutId, orphanTimers,
                   retryDelay, mounted, currentRetryIndex, syncTimers, failStreak, budget, capturing,
                   lastFlush>>

ClearRetry_Leaks(id, orphans) == IF id = "live" THEN orphans + 1 ELSE orphans

\* if (retryTimeoutId) clearTimeout(retryTimeoutId): the pending timers left
\* apart from the one retryTimeoutId names
ClearRetry(id, orphans) == orphans

\* after the loop: schedule a retry or reset the backoff; finally isSyncing = false
EndPass(p) ==
    /\ pass[p].pc = "loop"
    /\ LoopEnds(p)
    /\ IF pass[p].anyFailed /\ isOnline /\ mounted
       THEN /\ retryDelay' = RetryDelay(currentRetryIndex)
            /\ currentRetryIndex' = currentRetryIndex + 1
            /\ orphanTimers' = ClearRetry(retryTimeoutId, orphanTimers)
            /\ retryTimeoutId' = "live"
            /\ failStreak' = IF failStreak >= 0 THEN failStreak + 1 ELSE failStreak
       ELSE /\ currentRetryIndex' = 0
            /\ failStreak' = 0
            /\ UNCHANGED <<retryDelay, orphanTimers, retryTimeoutId>>
    /\ isSyncing' = FALSE
    /\ pass' = [pass EXCEPT ![p] = IdlePass]
    /\ lastEvent' = Record(IF pass[p].anyFailed /\ isOnline /\ mounted /\ retryTimeoutId = "live"
                             THEN "replace" ELSE "pass")
    /\ overtaken' = IF pass[p].anyFailed /\ isOnline /\ mounted THEN FALSE ELSE overtaken
    /\ UNCHANGED <<dbVars, isOnline, mounted, syncTimers, failures, budget, capturing, lastFlush>>

\* ------------------------------------------------------------------ triggers
\* the effect of useSyncService runs: mountedRef.current = true; ...; flushOutbox()
Mount ==
    /\ ~mounted
    /\ mounted' = TRUE
    /\ flushOutbox(TRUE, isOnline)
    /\ lastEvent' = Record("mount")
    /\ overtaken' = Overtakes
    /\ UNCHANGED <<dbVars, isOnline, retryTimeoutId, orphanTimers, retryDelay,
                   currentRetryIndex, syncTimers, failStreak, failures, budget, capturing>>

\* the cleanup of the effect
Unmount ==
    /\ mounted
    /\ mounted' = FALSE
    /\ retryTimeoutId' = "null"
    /\ failStreak' = -1
    /\ lastEvent' = Record("unmount")
    /\ overtaken' = FALSE
    /\ UNCHANGED <<dbVars, isOnline, isSyncing, orphanTimers, retryDelay,
                   currentRetryIndex, syncTimers, pass, failures, budget, capturing, lastFlush>>

BackOnline_LevelTriggered(wasOffline, online, m) == online /\ m

\* if (wasOffline && isOnline && mountedRef.current)
BackOnline(wasOffline, online, m) == wasOffline /\ online /\ m

\* handleConnectivityChange(state) with state.isConnected ?? false = connected
handleConnectivityChange(connected) ==
    /\ mounted
    /\ isOnline' = connected
    /\ IF BackOnline(~isOnline, connected, mounted)
       THEN /\ currentRetryIndex' = 0
            /\ failStreak' = 0
            /\ flushOutbox(mounted, connected)
       ELSE /\ failStreak' = IF connected THEN failStreak ELSE -1
            /\ UNCHANGED <<currentRetryIndex, isSyncing, pass, lastFlush>>
    /\ lastEvent' = Record("connectivity")
    /\ overtaken' = Overtakes
    /\ UNCHANGED <<dbVars, retryTimeoutId, orphanTimers, retryDelay, mounted, syncTimers,
                   failures, budget, capturing>>

\* handleAppStateChange('active')
handleAppStateChange ==
    /\ mounted
    /\ IF isOnline /\ mounted
       THEN flushOutbox(mounted, isOnline)
       ELSE UNCHANGED <<isSyncing, pass, lastFlush>>
    /\ lastEvent' = Record("appState")
    /\ overtaken' = Overtakes
    /\ UNCHANGED <<dbVars, isOnline, retryTimeoutId, orphanTimers, retryDelay, mounted,
                   currentRetryIndex, syncTimers, failStreak, failures, budget, capturing>>

\* the 100 ms timer of syncNow fires: flushOutbox()
SyncTimerFires ==
    /\ syncTimers > 0
    /\ syncTimers' = syncTimers - 1
    /\ flushOutbox(mounted, isOnline)
    /\ lastEvent' = Record("syncTimer")
    /\ overtaken' = Overtakes
    /\ UNCHANGED <<dbVars, isOnline, retryTimeoutId, orphanTimers, retryDelay, mounted,
                   currentRetryIndex, failStreak, failures, budget, capturing>>

\* the retry timer fires: if (mountedRef.current && isOnline) flushOutbox()
RetryTimerFires ==
    /\ \/ /\ retryTimeoutId = "live"
          /\ retryTimeoutId' = "stale"
          /\ UNCHANGED orphanTimers
       \/ /\ orphanTimers > 0
          /\ orphanTimers' = orphanTimers - 1
          /\ UNCHANGED retryTimeoutId
    /\ IF mounted /\ isOnline
       THEN flushOutbox(mounted, isOnline)
       ELSE UNCHANGED <<isSyncing, pass, lastFlush>>
    /\ lastEvent' = Record("retryTimer")
    /\ overtaken' = FALSE
    /\ UNCHANGED <<dbVars, isOnline, retryDelay, mounted, currentRetryIndex, syncTimers,
                   failStreak, failures, budget, capturing>>

syncNow_NoTimer(timers) == timers

\* triggerSync() -> syncNow(): if (!isOnline) return; setTimeout(flushOutbox, 100)
syncNow(timers) ==
    IF mounted /\ isOnline /\ timers < MaxSyncTimers THEN timers + 1 ELSE timers

\* ------------------------------------------------------------------- screens
FreshLocalId == CHOOSE l \in LocalIds : ideas[l].state = "none"
                                        /\ \A k \in LocalIds : k < l => ideas[k].state # "none"

CanEnqueue == Enqueued < budget.items

CanInsert == Cardinality({l \in LocalIds : ideas[l].state # "none"}) < budget.ideas

Born(f) == [f EXCEPT ![Enqueued + 1] = "queued"]

\* no onSubmit is suspended
NoCapture == [localId |-> NULL, mode |-> NONE]

\* capture screen, onSubmit up to the return of await insertIdeaLocal
onSubmitInsert(mode) ==
    /\ capturing = NoCapture
    /\ CanEnqueue
    /\ CanInsert
    /\ ideas' = insertIdeaLocal(ideas, FreshLocalId, mode, NULL, NONE)
    /\ capturing' = [localId |-> FreshLocalId, mode |-> mode]
    /\ lastEvent' = Record("screen")
    /\ UNCHANGED overtaken
    /\ UNCHANGED <<outbox, remote, fate, syncTimers, engineVars, failures, budget>>

onSubmitEnqueue_NoEnqueue ==
    /\ capturing # NoCapture
    /\ capturing' = NoCapture
    /\ syncTimers' = syncNow(syncTimers)
    /\ lastEvent' = Record("screen")
    /\ UNCHANGED overtaken
    /\ UNCHANGED <<ideas, outbox, fate, remote, engineVars, failures, budget>>

\* capture screen, the rest of onSubmit: await enqueueOutbox(create...), triggerSync
onSubmitEnqueue ==
    /\ capturing # NoCapture
    /\ outbox' = IF capturing.mode = "PROJECT"
                 THEN enqueueOutbox(outbox, "createProject", capturing.localId, NULL, NULL,
                                    NONE)
                 ELSE enqueueOutbox(outbox, "createFeature", capturing.localId, NULL, NULL,
                                    "INBOX")
    /\ fate' = Born(fate)
    /\ capturing' = NoCapture
    /\ syncTimers' = syncNow(syncTimers)
    /\ lastEvent' = Record("screen")
    /\ UNCHANGED overtaken
    /\ UNCHANGED <<ideas, remote, engineVars, failures, budget>>

\* capture screen, onSubmit: insertIdeaLocal, enqueueOutbox(create...), triggerSync
onSubmit(mode) ==
    /\ CanEnqueue
    /\ CanInsert
    /\ ideas' = insertIdeaLocal(ideas, FreshLocalId, mode, NULL, NONE)
    /\ outbox' = IF mode = "PROJECT"
                 THEN enqueueOutbox(outbox, "createProject", FreshLocalId, NULL, NULL, NONE)
                 ELSE enqueueOutbox(outbox, "createFeature", FreshLocalId, NULL, NULL, "INBOX")
    /\ fate' = Born(fate)
    /\ syncTimers' = syncNow(syncTimers)
    /\ lastEvent' = Record("screen")
    /\ UNCHANGED overtaken
    /\ UNCHANGED <<remote, engineVars, failures, budget, capturing>>

\* project screen, addFeature
addFeature(projectLocalId) ==
    /\ CanEnqueue
    /\ CanInsert
    /\ Live(projectLocalId) /\ ideas[projectLocalId].type = "PROJECT"
    /\ ideas' = insertIdeaLocal(ideas, FreshLocalId, "FEATURE", projectLocalId, "BACKLOG")
    /\ outbox' = enqueueOutbox(outbox, "createFeature", FreshLocalId, NULL,
                               projectLocalId, "BACKLOG")
    /\ fate' = Born(fate)
    /\ syncTimers' = syncNow(syncTimers)
    /\ lastEvent' = Record("screen")
    /\ UNCHANGED overtaken
    /\ UNCHANGED <<remote, engineVars, failures, budget, capturing>>

\* project screen, markDone
markDone(l) ==
    /\ CanEnqueue
    /\ Live(l) /\ ideas[l].type = "FEATURE" /\ ideas[l].parent # NULL /\ ~ideas[l].archived
    /\ ideas' = updateIdeaLocalStatus(ideas, l, "DONE")
    /\ outbox' = enqueueOutbox(outbox, "updateStatus", l, getServerIdByLocalId(ideas, l),
                               NULL, "DONE")
    /\ fate' = Born(fate)
    /\ syncTimers' = syncNow(syncTimers)
    /\ lastEvent' = Record("screen")
    /\ UNCHANGED overtaken
    /\ UNCHANGED <<remote, engineVars, failures, budget, capturing>>

\* deleteItem of the three lists and deleteProject
deleteItem(l) ==
    /\ CanEnqueue
    /\ Live(l) /\ ~ideas[l].archived
    /\ ideas' = deleteIdeaLocal(ideas, l)
    /\ outbox' = enqueueOutbox(outbox, "deleteIdea", l, getServerIdByLocalId(ideas, l),
                               NULL, NONE)
    /\ fate' = Born(fate)
    /\ syncTimers' = syncNow(syncTimers)
    /\ lastEvent' = Record("screen")
    /\ UNCHANGED overtaken
    /\ UNCHANGED <<remote, engineVars, failures, budget, capturing>>

\* a caller of enqueueOutbox('updateIdea', { localId, serverId, content }) and
\* triggerSync, as the action type of OutboxItem admits
enqueueUpdateIdea(l) ==
    /\ CanEnqueue
    /\ Live(l)
    /\ outbox' = enqueueOutbox(outbox, "updateIdea", l, getServerIdByLocalId(ideas, l),
                               NULL, NONE)
    /\ fate' = Born(fate)
    /\ syncTimers' = syncNow(syncTimers)
    /\ lastEvent' = Record("screen")
    /\ UNCHANGED overtaken
    /\ UNCHANGED <<ideas, remote, engineVars, failures, budget, capturing>>

\* projects screen, archiveProject
archiveProject(l) ==
    /\ CanEnqueue
    /\ Live(l) /\ ideas[l].type = "PROJECT" /\ ~ideas[l].archived
    /\ ideas' = archiveIdeaLocal(ideas, l)
    /\ outbox' = enqueueOutbox(outbox, "archiveIdea", l, getServerIdByLocalId(ideas, l),
                               NULL, NONE)
    /\ fate' = Born(fate)
    /\ syncTimers' = syncNow(syncTimers)
    /\ lastEvent' = Record("screen")
    /\ UNCHANGED overtaken
    /\ UNCHANGED <<remote, engineVars, failures, budget, capturing>>

\* ------------------------------------------------------------ specification
Init ==
    /\ ideas = [l \in LocalIds |-> NoRow]
    /\ outbox = {}
    /\ remote = <<>>
    /\ isOnline = TRUE
    /\ isSyncing = FALSE
    /\ retryTimeoutId = "null"
    /\ orphanTimers = 0
    /\ retryDelay = 0
    /\ mounted = FALSE
    /\ currentRetryIndex = 0
    /\ syncTimers = 0
    /\ pass = [p \in Passes |-> IdlePass]
    /\ fate = [i \in ItemIds |-> "unborn"]
    /\ failStreak = 0
    /\ failures = 0
    /\ budget = [ideas |-> MaxIdeas, items |-> MaxItems, failures |-> MaxFailures,
                 history |-> FALSE]
    /\ lastFlush = "none"
    /\ lastEvent = "none"
    /\ overtaken = FALSE
    /\ capturing = NoCapture

Next ==
    \/ Mount
    \/ Unmount
    \/ \E connected \in BOOLEAN : handleConnectivityChange(connected)
    \/ handleAppStateChange
    \/ SyncTimerFires
    \/ RetryTimerFires
    \/ \E p \in Passes : Fetch(p)
    \/ \E p \in Passes : IssueCall(p)
    \/ \E p \in Passes : RemoveMoot(p)
    \/ \E p \in Passes : ReturnOk(p)
    \/ \E p \in Passes : ReturnError(p)
    \/ \E p \in Passes : EndPass(p)
    \/ \E mode \in {"PROJECT", "FEATURE"} : onSubmit(mode)
    \/ \E l \in LocalIds : addFeature(l)
    \/ \E l \in LocalIds : markDone(l)
    \/ \E l \in LocalIds : deleteItem(l)
    \/ \E l \in LocalIds : archiveProject(l)

Spec == Init /\ [][Next]_vars

\* One idea and the entries of its life, through failures up to the retry ceiling
InitRetry ==
    /\ ideas = [l \in LocalIds |-> NoRow]
    /\ outbox = {}
    /\ remote = <<>>
    /\ isOnline = TRUE
    /\ isSyncing = FALSE
    /\ retryTimeoutId = "null"
    /\ orphanTimers = 0
    /\ retryDelay = 0
    /\ mounted = FALSE
    /\ currentRetryIndex = 0
    /\ syncTimers = 0
    /\ pass = [p \in Passes |-> IdlePass]
    /\ fate = [i \in ItemIds |-> "unborn"]
    /\ failStreak = 0
    /\ failures = 0
    /\ budget = [ideas |-> RetryIdeas, items |-> RetryItems, failures |-> RetryFailures,
                 history |-> FALSE]
    /\ lastFlush = "none"
    /\ lastEvent = "none"
    /\ overtaken = FALSE
    /\ capturing = NoCapture

NextRetry ==
    \/ Mount
    \/ Unmount
    \/ \E connected \in BOOLEAN : handleConnectivityChange(connected)
    \/ handleAppStateChange
    \/ SyncTimerFires
    \/ RetryTimerFires
    \/ \E p \in Passes : Fetch(p)
    \/ \E p \in Passes : IssueCall(p)
    \/ \E p \in Passes : RemoveMoot(p)
    \/ \E p \in Passes : ReturnOk(p)
    \/ \E p \in Passes : ReturnError(p)
    \/ \E p \in Passes : EndPass(p)
    \/ \E mode \in {"PROJECT", "FEATURE"} : onSubmit(mode)
    \/ \E l \in LocalIds : deleteItem(l)
    \/ \E l \in LocalIds : archiveProject(l)

SpecRetry == InitRetry /\ [][NextRetry]_vars

\* One idea, with the handler of every step on record and a storage layer
\* that can fail the read of the outbox.  Every await of a pass settles.
InitEngine ==
    /\ ideas = [l \in LocalIds |-> NoRow]
    /\ outbox = {}
    /\ remote = <<>>
    /\ isOnline = TRUE
    /\ isSyncing = FALSE
    /\ retryTimeoutId = "null"
    /\ orphanTimers = 0
    /\ retryDelay = 0
    /\ mounted = FALSE
    /\ currentRetryIndex = 0
    /\ syncTimers = 0
    /\ pass = [p \in Passes |-> IdlePass]
    /\ fate = [i \in ItemIds |-> "unborn"]
    /\ failStreak = 0
    /\ failures = 0
    /\ budget = [ideas |-> EngineIdeas, items |-> EngineItems, failures |-> EngineFailures,
                 history |-> TRUE]
    /\ lastFlush = "none"
    /\ lastEvent = "none"
    /\ overtaken = FALSE
    /\ capturing = NoCapture

PassStep(p) ==
    \/ Fetch(p)
    \/ FetchThrows(p)
    \/ IssueCall(p)
    \/ RemoveMoot(p)
    \/ ReturnFalse(p)
    \/ ReturnOk(p)
    \/ ReturnError(p)
    \/ EndPass(p)

NextEngine ==
    \/ Mount
    \/ Unmount
    \/ \E connected \in BOOLEAN : handleConnectivityChange(connected)
    \/ handleAppStateChange
    \/ SyncTimerFires
    \/ RetryTimerFires
    \/ \E p \in Passes : Fetch(p)
    \/ \E p \in Passes : FetchThrows(p)
    \/ \E p \in Passes : IssueCall(p)
    \/ \E p \in Passes : RemoveMoot(p)
    \/ \E p \in Passes : ReturnOk(p)
    \/ \E p \in Passes : ReturnError(p)
    \/ \E p \in Passes : EndPass(p)
    \/ \E mode \in {"PROJECT", "FEATURE"} : onSubmit(mode)
    \/ \E l \in LocalIds : deleteItem(l)
    \/ \E l \in LocalIds : archiveProject(l)

SpecEngine ==
    InitEngine /\ [][NextEngine]_vars /\ WF_vars(\E p \in Passes : PassStep(p))

\* The hook is mounted once and stays mounted and online; every remote call
\* succeeds; the only triggers are the initial flush and the timers of syncNow.
\* Every await of a pass settles and every timer fires.
InitCalm ==
    /\ ideas = [l \in LocalIds |-> NoRow]
    /\ outbox = {}
    /\ remote = <<>>
    /\ isOnline = TRUE
    /\ isSyncing = FALSE
    /\ retryTimeoutId = "null"
    /\ orphanTimers = 0
    /\ retryDelay = 0
    /\ mounted = FALSE
    /\ currentRetryIndex = 0
    /\ syncTimers = 0
    /\ pass = [p \in Passes |-> IdlePass]
    /\ fate = [i \in ItemIds |-> "unborn"]
    /\ failStreak = 0
    /\ failures = 0
    /\ budget = [ideas |-> CalmIdeas, items |-> CalmItems, failures |-> 0,
                 history |-> FALSE]
    /\ lastFlush = "none"
    /\ lastEvent = "none"
    /\ overtaken = FALSE
    /\ capturing = NoCapture

NextCalm ==
    \/ Mount
    \/ SyncTimerFires
    \/ \E p \in Passes : Fetch(p)
    \/ \E p \in Passes : IssueCall(p)
    \/ \E p \in Passes : RemoveMoot(p)
    \/ \E p \in Passes : ReturnOk(p)
    \/ \E p \in Passes : EndPass(p)
    \/ \E mode \in {"PROJECT", "FEATURE"} : onSubmit(mode)
    \/ \E l \in LocalIds : addFeature(l)
    \/ \E l \in LocalIds : markDone(l)
    \/ \E l \in LocalIds : deleteItem(l)
    \/ \E l \in LocalIds : archiveProject(l)

SpecCalm ==
    /\ InitCalm
    /\ [][NextCalm]_vars
    /\ WF_vars(Mount)
    /\ WF_vars(SyncTimerFires)
    /\ WF_vars(\E p \in Passes : PassStep(p))

\* One idea whose outbox can also hold updateIdea entries.
InitUpdate ==
    /\ ideas = [l \in LocalIds |-> NoRow]
    /\ outbox = {}
    /\ remote = <<>>
    /\ isOnline = TRUE
    /\ isSyncing = FALSE
    /\ retryTimeoutId = "null"
    /\ orphanTimers = 0
    /\ retryDelay = 0
    /\ mounted = FALSE
    /\ currentRetryIndex = 0
    /\ syncTimers = 0
    /\ pass = [p \in Passes |-> IdlePass]
    /\ fate = [i \in ItemIds |-> "unborn"]
    /\ failStreak = 0
    /\ failures = 0
    /\ budget = [ideas |-> UpdateIdeas, items |-> UpdateItems, failures |-> UpdateFailures,
                 history |-> FALSE]
    /\ lastFlush = "none"
    /\ lastEvent = "none"
    /\ overtaken = FALSE
    /\ capturing = NoCapture

NextUpdate ==
    \/ Mount
    \/ Unmount
    \/ \E connected \in BOOLEAN : handleConnectivityChange(connected)
    \/ SyncTimerFires
    \/ RetryTimerFires
    \/ \E p \in Passes : Fetch(p)
    \/ \E p \in Passes : IssueCall(p)
    \/ \E p \in Passes : RemoveMoot(p)
    \/ \E p \in Passes : ReturnFalse(p)
    \/ \E p \in Passes : ReturnOk(p)
    \/ \E p \in Passes : ReturnError(p)
    \/ \E p \in Passes : EndPass(p)
    \/ \E mode \in {"PROJECT", "FEATURE"} : onSubmit(mode)
    \/ \E l \in LocalIds : deleteItem(l)
    \/ \E l \in LocalIds : enqueueUpdateIdea(l)

SpecUpdate == InitUpdate /\ [][NextUpdate]_vars

\* The capture screen alone, with the two awaits of onSubmit as separate steps,
\* and enough failures of the remote service for a create to be abandoned.
InitCapture ==
    /\ ideas = [l \in LocalIds |-> NoRow]
    /\ outbox = {}
    /\ remote = <<>>
    /\ isOnline = TRUE
    /\ isSyncing = FALSE
    /\ retryTimeoutId = "null"
    /\ orphanTimers = 0
    /\ retryDelay = 0
    /\ mounted = FALSE
    /\ currentRetryIndex = 0
    /\ syncTimers = 0
    /\ pass = [p \in Passes |-> IdlePass]
    /\ fate = [i \in ItemIds |-> "unborn"]
    /\ failStreak = 0
    /\ failures = 0
    /\ budget = [ideas |-> CaptureIdeas, items |-> CaptureItems,
                 failures |-> CaptureFailures, history |-> FALSE]
    /\ lastFlush = "none"
    /\ lastEvent = "none"
    /\ overtaken = FALSE
    /\ capturing = NoCapture

NextCapture ==
    \/ Mount
    \/ Unmount
    \/ \E connected \in BOOLEAN : handleConnectivityChange(connected)
    \/ handleAppStateChange
    \/ SyncTimerFires
    \/ RetryTimerFires
    \/ \E p \in Passes : Fetch(p)
    \/ \E p \in Passes : IssueCall(p)
    \/ \E p \in Passes : ReturnOk(p)
    \/ \E p \in Passes : ReturnError(p)
    \/ \E p \in Passes : EndPass(p)
    \/ \E mode \in {"PROJECT", "FEATURE"} : onSubmitInsert(mode)
    \/ onSubmitEnqueue

SpecCapture == InitCapture /\ [][NextCapture]_vars

\* -------------------------------------------------------------------- claims
ActivePasses == {p \in Passes : Active(p)}

InFlight == {p \in Passes : pass[p].pc = "call"}

\* the bookkeeping of a snapshot item is done: the entry is gone, its fate is
\* settled, or the failure was counted on it
Finished(it) ==
    \/ fate[it.id] # "queued"
    \/ it.id \notin OutboxIds(outbox)
    \/ \E o \in outbox : o.id = it.id /\ o.attemptCount > it.attemptCount

\* C1: at most one flushOutbox loop is active in every reachable state (a
\* trigger that finds isSyncing set starts no second one), so no entry has
\* remote calls of two overlapping passes.
C1_AtMostOneDrain ==
    /\ Cardinality(ActivePasses) <= 1
    /\ isSyncing <=> ActivePasses # {}
    /\ \A p, q \in InFlight : Current(p).id = Current(q).id => p = q

\* a trigger found a pass in flight and did nothing, the pass has a call out
C1_Witness ==
    /\ lastFlush = "busy"
    /\ isSyncing
    /\ InFlight # {}

\* C2: the snapshot of a pass is in ascending createdAt order, the items
\* before the current one are finished when a call is issued, and at most one
\* remote call is in flight.
C2_FifoSequential ==
    /\ \A p \in ActivePasses : \A i, j \in 1..Len(pass[p].items) :
          i < j => pass[p].items[i].createdAt < pass[p].items[j].createdAt
    /\ \A p \in InFlight : \A i \in 1..(pass[p].idx - 1) : Finished(pass[p].items[i])
    /\ Cardinality(InFlight) <= 1

\* the call of the third item of a snapshot is in flight
C2_Witness ==
    \E p \in InFlight : pass[p].idx = 3 /\ Len(pass[p].items) = 3

C4_RemovedOnlyWhenSettled_Claimed ==
    \A i \in ItemIds : fate[i] = "queued" => i \in OutboxIds(outbox)

\* the step of pass p in which the remote call of its current item fails
CallFailed(p) ==
    /\ pass[p].pc = "call"
    /\ pass'[p].pc = "loop"
    /\ fate'[Current(p).id] # "success"

\* C5: when the call of an item read with attemptCount >= 10 fails, exactly
\* that entry leaves the outbox, with no effect on the remote table, and the
\* pass does not count a failure.
C5_AbandonAtCeiling ==
    [][\A p \in Passes :
          (CallFailed(p) /\ Current(p).attemptCount >= 10)
          => /\ OutboxIds(outbox') = OutboxIds(outbox) \ {Current(p).id}
             /\ fate'[Current(p).id] = "abandoned"
             /\ remote' = remote
             /\ pass'[p].anyFailed = pass[p].anyFailed]_vars

\* an entry was dropped at the ceiling while another entry of the same
\* localId stayed queued
C5_Witness ==
    \E i \in ItemIds :
        /\ fate[i] = "abandoned"
        /\ i \notin OutboxIds(outbox)
        /\ outbox # {}

\* the step of pass p that finds its current item without a serverId
MootStep(p) ==
    /\ pass[p].pc = "loop"
    /\ ~LoopEnds(p)
    /\ Current(p).action \in {"updateStatus", "archiveIdea", "deleteIdea"}
    /\ Current(p).serverId = NULL
    /\ ideas[Current(p).localId].serverId = NULL
    /\ pass'[p] # pass[p]

\* C6: such an item is deleted by entry id with no remote call, every other
\* entry keeps its attemptCount and lastError, and the pass counts no failure.
C6_MissingServerIdNoOp ==
    [][\A p \in Passes :
          MootStep(p)
          => /\ outbox' = {it \in outbox : it.id # Current(p).id}
             /\ pass'[p].pc = "loop"
             /\ pass'[p].idx = pass[p].idx + 1
             /\ pass'[p].anyFailed = pass[p].anyFailed
             /\ remote' = remote]_vars

\* a moot entry was removed while an entry of the same localId stayed queued
C6_Witness ==
    \E i \in ItemIds :
        /\ fate[i] = "moot"
        /\ \E it \in outbox : it.attemptCount > 0

\* C7: while the engine stays online and mounted, the n-th pass in a row that
\* ends with a failure schedules its retry after 2000, 5000, 10000, then
\* 30000 ms; a pass without failure starts the count again.
C7_BackoffSequence ==
    LET claimed == <<2000, 5000, 10000, 30000>>
    IN  failStreak >= 1 =>
            /\ retryDelay = (IF failStreak <= 4 THEN claimed[failStreak] ELSE 30000)
            /\ currentRetryIndex = failStreak

\* the fifth failing pass in a row has scheduled its retry
C7_Witness ==
    failStreak = 5 /\ retryDelay = 30000 /\ retryTimeoutId = "live"

\* the step of pass p in which the remote create of its current item returns
CreateReturned(p) ==
    /\ pass[p].pc = "call"
    /\ IsCreate(Current(p))
    /\ pass'[p].created # pass[p].created

C9_IdempotentRemoval ==
    \A i \in ItemIds :
        fate[i] = "success"
        => /\ i \notin OutboxIds(outbox)
           /\ \A p \in ActivePasses :
                 \A k \in 1..Len(pass[p].items) :
                     k >= pass[p].idx => pass[p].items[k].id # i

\* a later pass runs on the outbox left by a pass that synced an entry
C9_Witness ==
    \E i \in ItemIds :
        /\ fate[i] = "success"
        /\ \E p \in InFlight : \A k \in 1..Len(pass[p].items) : pass[p].items[k].id # i

\* C10: a serverId that is set is never replaced by another value.
C10_ServerIdWriteOnce ==
    [][\A l \in LocalIds :
          (ideas[l].serverId # NULL /\ ideas'[l].state = "live")
          => ideas'[l].serverId = ideas[l].serverId]_vars

\* a synced idea was changed locally and a later pass has a call out for it
C10_Witness ==
    \E l \in LocalIds :
        /\ Live(l) /\ ideas[l].serverId # NULL
        /\ \E p \in InFlight : Current(p).localId = l /\ ~IsCreate(Current(p))

\* a step taken by one of the drain triggers: mount, connectivity event,
\* app foreground, timer of syncNow, retry timer
TriggerStep ==
    lastEvent' \in {"mount", "connectivity", "appState", "syncTimer", "retryTimer"}

\* C11: a trigger that fires while a pass is in progress or while the monitor
\* reports offline starts no pass, leaves the outbox (and so every
\* attemptCount) and the remote table as they are and does not touch isSyncing.
C11_TriggerNoOp ==
    [][(TriggerStep /\ (isSyncing \/ ~isOnline'))
       => /\ pass' = pass
          /\ outbox' = outbox
          /\ remote' = remote
          /\ isSyncing' = isSyncing]_vars

\* the timer of syncNow fired offline with entries queued; nothing was started
C11_Witness ==
    /\ lastEvent = "syncTimer"
    /\ lastFlush = "skipped"
    /\ mounted /\ ~isOnline /\ ~isSyncing
    /\ outbox # {}

\* C12: a connectivity event calls flushOutbox, and starts a pass unless one
\* is in progress, exactly when it takes isOnline from false to true; an event
\* that leaves isOnline as it was or takes it to false calls nothing.
C12_EdgeTriggered ==
    [][lastEvent' = "connectivity"
       => IF ~isOnline /\ isOnline'
          THEN /\ lastFlush' \in {"started", "busy"}
               /\ ~isSyncing => (isSyncing' /\ \E p \in Passes : ~Active(p) /\ pass'[p].pc = "fetch")
          ELSE /\ pass' = pass
               /\ isSyncing' = isSyncing
               /\ lastFlush' = lastFlush]_vars

\* the engine came back online with a retry pending and entries queued, and
\* the event started a pass
C12_Witness ==
    /\ lastEvent = "connectivity"
    /\ lastFlush = "started"
    /\ \E p \in Passes : pass[p].pc = "fetch"
    /\ currentRetryIndex = 0
    /\ retryTimeoutId = "live"
    /\ outbox # {}

\* the step of pass p in which the remote call of its current item throws
CallThrew(p) ==
    /\ pass[p].pc = "call"
    /\ pass'[p] # pass[p]
    /\ fate'[Current(p).id] # "success"

\* C13: an exception of a remote call stays inside processItem: the pass goes
\* on to its loop head with isSyncing set, flushOutbox does not reject, and
\* no call of flushOutbox has ever rejected, whatever failed before.
C13_FailuresCaught ==
    [][\A p \in Passes :
          CallThrew(p)
          => /\ pass'[p].pc = "loop"
             /\ pass'[p].idx = pass[p].idx + 1
             /\ isSyncing'
             /\ lastFlush' = lastFlush
             /\ lastFlush # "threw"]_vars

\* after several failed calls a pass is at its second item, the first having
\* failed in this pass
C13_Witness ==
    /\ failures >= 3
    /\ lastFlush # "threw"
    /\ \E p \in Passes :
          /\ pass[p].pc = "loop"
          /\ pass[p].anyFailed
          /\ pass[p].idx = 2
          /\ Len(pass[p].items) >= 2

\* a step of a drain pass
PassMoved == \E p \in Passes : Active(p) /\ pass'[p] # pass[p]

\* C14: a step of a drain pass leaves every IdeaRecord as it is, except that
\* the step in which a create returns sets the serverId of the record of that
\* item; it inserts no record and deletes none, also when it abandons an item.
C14_NoReconcile ==
    [][PassMoved
       => \A l \in LocalIds :
             \/ ideas'[l] = ideas[l]
             \/ /\ \E p \in Passes : CreateReturned(p) /\ Current(p).localId = l
                /\ ideas[l].state = "live"
                /\ ideas'[l] = [ideas[l] EXCEPT !.serverId = ideas'[l].serverId]]_vars

\* the create of an idea was abandoned; its record, archived meanwhile, is
\* still there without a serverId
C14_Witness ==
    /\ fate[1] = "abandoned"
    /\ Live(1)
    /\ ideas[1].archived
    /\ ideas[1].serverId = NULL

C16_SyncingCleared ==
    /\ []((\A p \in Passes : ~Active(p)) => ~isSyncing)
    /\ (isSyncing ~> ~isSyncing)

\* the read of the outbox threw with entries queued, and isSyncing is clear
C16_Witness ==
    /\ lastFlush = "threw"
    /\ ~isSyncing
    /\ \A p \in Passes : ~Active(p)
    /\ outbox # {}

\* C17: an item that fails without being abandoned marks the pass failed and
\* the pass goes on; a pass marked failed stays so, takes the next item of its
\* snapshot at every loop head reached online and mounted, and after the last
\* item ends by scheduling a retry.
C17_FailureIndependence ==
    [][\A p \in Passes :
          /\ (CallThrew(p) /\ fate'[Current(p).id] # "abandoned")
             => /\ pass'[p].pc = "loop"
                /\ pass'[p].idx = pass[p].idx + 1
                /\ pass'[p].items = pass[p].items
                /\ pass'[p].anyFailed
          /\ (pass[p].anyFailed /\ pass'[p].pc # "idle") => pass'[p].anyFailed
          /\ (pass[p].pc = "loop" /\ pass[p].anyFailed /\ isOnline /\ mounted
                /\ pass'[p] # pass[p])
             => IF pass[p].idx <= Len(pass[p].items)
                THEN \/ pass'[p].pc = "call"
                     \/ pass'[p].pc = "loop" /\ pass'[p].idx = pass[p].idx + 1
                ELSE pass'[p].pc = "idle" /\ retryTimeoutId' = "live"]_vars

\* the first item of a pass failed and the call of a later item is in flight
C17_Witness ==
    \E p \in InFlight :
        /\ pass[p].anyFailed
        /\ pass[p].idx >= 2
        /\ \E it \in outbox : it.id = pass[p].items[1].id /\ it.attemptCount > 0

\* C18: a pass that has a snapshot ends at a loop head only, and there only
\* when the snapshot is used up, isOnline is false or the hook is unmounted.
C18_EarlyStopOnly ==
    [][\A p \in Passes :
          (pass[p].pc \in {"loop", "call"} /\ pass'[p].pc = "idle")
          => /\ pass[p].pc = "loop"
             /\ \/ pass[p].idx > Len(pass[p].items)
                \/ ~isOnline
                \/ ~mounted]_vars

\* a pass whose first item failed ended offline without a retry; the second
\* entry was not reached
C18_Witness ==
    /\ lastEvent = "pass"
    /\ lastFlush = "started"
    /\ \A p \in Passes : ~Active(p)
    /\ mounted /\ ~isOnline
    /\ retryTimeoutId = "null" /\ currentRetryIndex = 0
    /\ \E a, b \in outbox :
          a.id = 1 /\ b.id = 2 /\ a.attemptCount = 1 /\ fate[2] = "queued"

\* C19 (as claimed): once another trigger has started a pass while a retry
\* timer was pending, that timer does not fire.
C19_RetryReplaced_Claimed ==
    [][overtaken => lastEvent' # "retryTimer"]_vars

\* C19 (amended): the retry timer that is pending when a pass ends with a
\* failure is cancelled as the new retry is scheduled: the new timer is then
\* the only pending one.
C19_RetryReplaced ==
    [][currentRetryIndex' = currentRetryIndex + 1
       => /\ retryTimeoutId' = "live"
          /\ orphanTimers' = 0
          /\ ~overtaken']_vars

\* a pass started by another trigger failed while a retry was pending and
\* has replaced it
C19_Witness ==
    /\ lastEvent = "replace"
    /\ retryTimeoutId = "live"
    /\ orphanTimers = 0
    /\ currentRetryIndex = 2

\* the entries a step removes from the outbox
Removed == {it \in outbox : it.id \notin OutboxIds(outbox')}

\* C20 (as claimed): the cleanup cancels the retry timer; while the hook stays
\* unmounted a pass takes no further item, no pass starts, no retry is
\* scheduled, and the only entry that can leave the outbox is the one whose
\* call was in flight.
C20_Teardown_Claimed ==
    [][/\ (mounted /\ ~mounted') => (retryTimeoutId' = "null" /\ orphanTimers' = 0)
       /\ (~mounted /\ ~mounted')
          => /\ \A p \in Passes :
                   /\ pass'[p].pc = "call" => pass[p].pc = "call"
                   /\ (pass[p].pc = "loop" /\ pass'[p] # pass[p]) => pass'[p].pc = "idle"
                   /\ ~Active(p) => pass'[p].pc = "idle"
             /\ retryTimeoutId' = retryTimeoutId
             /\ orphanTimers' = orphanTimers
             /\ \A it \in Removed :
                   \E p \in Passes : pass[p].pc = "call" /\ Current(p).id = it.id]_vars

\* the same without the last clause, on the entries that leave the outbox
C20_TeardownStops ==
    [][/\ (mounted /\ ~mounted') => (retryTimeoutId' = "null" /\ orphanTimers' = 0)
       /\ (~mounted /\ ~mounted')
          => /\ \A p \in Passes :
                   /\ pass'[p].pc = "call" => pass[p].pc = "call"
                   /\ (pass[p].pc = "loop" /\ pass'[p] # pass[p]) => pass'[p].pc = "idle"
                   /\ ~Active(p) => pass'[p].pc = "idle"
             /\ retryTimeoutId' = retryTimeoutId
             /\ orphanTimers' = orphanTimers]_vars

\* the attemptCount with which pass p read entry id at its start
SnapshotCount(p, id) ==
    LET k == CHOOSE k \in 1..Len(pass[p].items) : pass[p].items[k].id = id
    IN  pass[p].items[k].attemptCount

\* C21 (as claimed): when a pass ends, every item whose call failed in it
\* without being abandoned is in the outbox with attemptCount one above the
\* value read at the start of the pass and with the error text as lastError.
C21_FailureKeepsItem_Claimed ==
    [][\A p \in Passes :
          (pass[p].pc = "loop" /\ pass'[p].pc = "idle")
          => \A f \in pass[p].failed :
                \E o \in outbox' :
                    /\ o.id = f[1]
                    /\ o.attemptCount = SnapshotCount(p, f[1]) + 1
                    /\ o.lastError = f[2]]_vars

\* C22 (as claimed): attemptCount counts the failed attempts of its own
\* entry: the step in which the call of an item fails raises the attemptCount
\* of that entry by one and leaves attemptCount and lastError of every other
\* entry alone, and no other step changes an attemptCount.
C22_AttemptCountPerItem_Claimed ==
    [][\A it \in outbox : \A o \in outbox' :
          o.id = it.id
          => IF \E p \in Passes : CallThrew(p) /\ Current(p).id = it.id
             THEN o.attemptCount = it.attemptCount + 1
             ELSE o.attemptCount = it.attemptCount /\ o.lastError = it.lastError]_vars

\* C23 (as claimed): when an item is removed for want of a serverId, no
\* remote document made from its localId exists and no create of that
\* localId is queued.
C23_MootNeverSynced_Claimed ==
    [][\A p \in Passes :
          MootStep(p)
          => /\ \A d \in 1..Len(remote) :
                   remote[d].origin = Current(p).localId => remote[d].deleted
             /\ \A it \in outbox : it.localId = Current(p).localId => ~IsCreate(it)]_vars

\* the step of pass p that takes an updateStatus, archiveIdea or deleteIdea
\* item whose payload has no serverId while the local store has one
LookupStep(p) ==
    /\ pass[p].pc = "loop"
    /\ pass[p].idx <= Len(pass[p].items) /\ mounted /\ isOnline
    /\ Current(p).action \in {"updateStatus", "archiveIdea", "deleteIdea"}
    /\ Current(p).serverId = NULL
    /\ ideas[Current(p).localId].state = "live"
    /\ ideas[Current(p).localId].serverId # NULL
    /\ pass'[p] # pass[p]

UnresolvedParentStep(p) ==
    /\ pass[p].pc = "loop"
    /\ pass[p].idx <= Len(pass[p].items) /\ mounted /\ isOnline
    /\ Current(p).action = "createFeature"
    /\ Current(p).parentProjectServerId = NULL
    /\ \/ Current(p).parentProjectLocalId = NULL
       \/ ideas[Current(p).parentProjectLocalId].serverId = NULL
    /\ pass'[p] # pass[p]

C26_Convergence_Claimed ==
    (/\ outbox = {}
     /\ \A p \in Passes : ~Active(p)
     /\ \A i \in ItemIds : fate[i] # "abandoned")
    => \A d \in 1..Len(remote) :
          ~remote[d].deleted
          => /\ ideas[remote[d].origin].state = "live"
             /\ remote[d].status = ideas[remote[d].origin].status
             /\ remote[d].archived = ideas[remote[d].origin].archived

\* nothing is left that would call flushOutbox: the hook is mounted, no pass
\* is running and no timer is pending
Quiescent ==
    /\ mounted
    /\ \A p \in Passes : ~Active(p)
    /\ syncTimers = 0
    /\ retryTimeoutId # "live" /\ orphanTimers = 0

\* C27 (as claimed): mounted, online and without a failing call, the engine
\* does not come to rest with an entry queued.
C27_NoStrandedItem_Claimed == Quiescent => outbox = {}

\* C27 (amended): the engine comes to rest with an entry queued only when the
\* latest call of flushOutbox found a pass in progress; and unless a call of
\* flushOutbox finds a pass in progress, every queued entry leaves the outbox.
C27_NoStrandedItem ==
    /\ [](Quiescent /\ outbox # {} => lastFlush = "busy")
    /\ (<>(lastFlush = "busy") \/ \A i \in ItemIds :
                                     (i \in OutboxIds(outbox)) ~> (i \notin OutboxIds(outbox)))

\* two ideas were enqueued, each followed by its timer, and both are synced
\* with the engine at rest
C27_Witness ==
    /\ Quiescent
    /\ outbox = {}
    /\ lastFlush = "started"
    /\ fate[1] = "success" /\ fate[2] = "success"
    /\ Live(1) /\ Live(2) /\ ideas[1].serverId # NULL /\ ideas[2].serverId # NULL

\* the pass step that finishes the processing of the current item of pass p
\* without success
ProcessedWithoutSuccess(p) ==
    /\ pass[p].pc \in {"loop", "call"}
    /\ pass'[p].pc = "loop"
    /\ pass'[p].idx = pass[p].idx + 1
    /\ fate'[Current(p).id] \notin {"success", "moot"}

\* C28 (as claimed): each step of a pass that processes an item without
\* success either removes the item from the outbox or raises its
\* attemptCount, whatever the action kind of the item.
C28_BoundedRetry_Claimed ==
    [][\A p \in Passes :
          ProcessedWithoutSuccess(p)
          => \A o \in outbox' :
                o.id = Current(p).id
                => \E it \in outbox : it.id = o.id /\ o.attemptCount > it.attemptCount]_vars

\* a record that exists locally and has no serverId
Unsynced(l) == Live(l) /\ ideas[l].serverId = NULL

HasCreate(l) == \E it \in outbox : it.localId = l /\ IsCreate(it)

Orphan(l) == Unsynced(l) /\ ~HasCreate(l)

\* the step that abandons the create item of l at the retry ceiling
AbandonStep(l) ==
    \E p \in Passes :
        /\ pass[p].pc = "call"
        /\ IsCreate(Current(p)) /\ Current(p).localId = l
        /\ fate[Current(p).id] # "abandoned"
        /\ fate'[Current(p).id] = "abandoned"

\* C29 (as claimed): in every reachable state each record without serverId
\* has a create item of its localId in the outbox unless that item was
\* abandoned: no step other than the abandoning of its create item leaves a
\* record unsynced and without create item.
C29_CreatePending_Claimed ==
    [][\A l \in LocalIds : Orphan(l)' => Orphan(l) \/ AbandonStep(l)]_vars

\* C29 (amended): a record without serverId has a create item of its localId
\* in the outbox unless that item was abandoned or the onSubmit that inserted
\* the record has not enqueued the item yet.
C29_CreatePending ==
    [][\A l \in LocalIds :
          Orphan(l)' => \/ capturing'.localId = l
                        \/ Orphan(l) /\ capturing.localId # l
                        \/ AbandonStep(l)]_vars

C29_Witness ==
    /\ Orphan(1)
    /\ capturing = NoCapture
    /\ fate[1] = "abandoned"
    /\ remote = <<>>

\* the retry timers that are pending
PendingRetryTimers == (IF retryTimeoutId = "live" THEN 1 ELSE 0) + orphanTimers

\* a step that sets a retry timer (setTimeout of flushOutbox, lines 168-177)
RetryScheduled ==
    /\ retryTimeoutId' = "live"
    /\ retryTimeoutId # "live" \/ currentRetryIndex' = currentRetryIndex + 1

\* C30: at most one retry timer is pending at any time, and a retry timer is
\* set only by the step that ends a pass which had a failure, with the engine
\* online and mounted; that step leaves the new timer as the only one.
C30_SingleRetryTimer ==
    /\ [](PendingRetryTimers <= 1)
    /\ [][RetryScheduled
          => /\ \E p \in Passes :
                   /\ pass[p].pc = "loop" /\ LoopEnds(p) /\ pass[p].anyFailed
                   /\ pass'[p].pc = "idle"
             /\ isOnline /\ mounted
             /\ PendingRetryTimers' = 1]_vars

\* a failed pass has set the first retry timer of an entry that stays queued
C30_Witness ==
    /\ PendingRetryTimers = 1
    /\ retryTimeoutId = "live"
    /\ currentRetryIndex = 1
    /\ mounted /\ isOnline
    /\ \A p \in Passes : ~Active(p)
    /\ \E it \in outbox : it.id = 1 /\ it.attemptCount = 1

====
